---- MODULE Spec2Model ----
(***************************************************************************)
(* State-machine model of the APIBench load generator                      *)
(* (src/src/extension.ts): executeBenchmark, runHttpBenchmark with its     *)
(* closures makeRequest and finalize, and the benchmark history.           *)
(*                                                                         *)
(* One action is one turn of the JavaScript event loop: the synchronous    *)
(* body of a command or of an event handler together with the promise      *)
(* continuations (microtasks) it triggers.  Date.now() is the variable     *)
(* now; a turn reads one value of it.  The network and the clock are the   *)
(* environment: the events 'response', 'end', 'error' and 'timeout' of     *)
(* Node's http.ClientRequest are delivered in every order Node allows.     *)
(***************************************************************************)
EXTENDS Integers, Sequences, FiniteSets, TLC

(***************************************************************************)
(* Bounds of the model.                                                    *)
(***************************************************************************)
\* Requests issued in one behaviour, over all executions.
MaxRequests == 3

\* Executions of executeBenchmark (they may overlap) and options.connections.
RunIds == {1, 2}
Connections == {0, 1, 2}

\* Instants (milliseconds) at which the clock is observed.
TimePoints == {0, 500, 30000, 31000, 31500}

\* options.duration (seconds) and res.statusCode (0 stands for undefined).
Durations == {0, 31}
Statuses == {0, 199, 200, 399, 400, 503}

\* Lengths of the history loaded by activate().
StoredLengths == {0, 49}

(***************************************************************************)
(* Program constants.                                                      *)
(***************************************************************************)
RequestTimeout == 30000
HistoryLimit == 50
MsPerSecond == 1000

VARIABLES
  now,               \* Date.now()
  benchmarkHistory,  \* let benchmarkHistory: BenchmarkResult[]
  options,           \* per execution: the BenchmarkOptions
  pc,                \* per execution: position in executeBenchmark
  panel,             \* per execution: panel.webview.html
  bench,             \* per execution: the closure of runHttpBenchmark
  lastStatus,        \* res.statusCode of the response that ended last
  budget             \* environment: commands still to be given, and the
                     \* number of requests the behaviour may issue in all

vars == <<now, benchmarkHistory, options, pc, panel, bench, lastStatus, budget>>

Horizon == CHOOSE t \in TimePoints : \A u \in TimePoints : u <= t

(***************************************************************************)
(* JavaScript numbers that need not be integers are kept as fractions      *)
(* num/den.  den = 0 stands for the results of a division by zero:         *)
(* 0/0 is NaN and n/0 (n > 0) is Infinity.                                 *)
(***************************************************************************)
Frac(n, d) == [num |-> n, den |-> d]
IsNaN(x) == x.num = 0 /\ x.den = 0
IsZero(x) == x.num = 0 /\ x.den # 0

\* The element of a singleton.  { F(v) : v \in {x} } computes x once and
\* then F of that value: a let-binding that is not evaluated again at each use.
TheOne(S) == CHOOSE y \in S : TRUE

Max2(a, b) == IF a > b THEN a ELSE b
CeilDiv(a, b) == (a + b - 1) \div b

RECURSIVE SumSeq(_)
SumSeq(s) == IF s = <<>> THEN 0 ELSE Head(s) + SumSeq(Tail(s))

\* Variant of the sort: the call of sort() left out.
NotSorted(s) == s

\* Variant of the sort: the comparator (a, b) => b - a.
SortDesc(s) ==
  LET n == Len(s)
      position(i) ==
        1 + Cardinality({j \in 1..n : s[j] > s[i] \/ (s[j] = s[i] /\ j < i)})
  IN  [k \in 1..n |-> s[CHOOSE i \in 1..n : position(i) = k]]

\* latencies.sort((a, b) => a - b): the entries in ascending order.  The entry
\* at index i goes to the position given by the number of entries that sort
\* before it (smaller, or equal and earlier).
SortAsc(s) ==
  LET n == Len(s)
      position(i) ==
        1 + Cardinality({j \in 1..n : s[j] < s[i] \/ (s[j] = s[i] /\ j < i)})
  IN  [k \in 1..n |-> s[CHOOSE i \in 1..n : position(i) = k]]

(***************************************************************************)
(* finalize and its percentile closure.  p is given in hundredths          *)
(* (0.5 -> 50, 0.95 -> 95, 0.99 -> 99).                                    *)
(***************************************************************************)
\* Variant of the index: Math.floor(latencies.length * p).
percentileFloor(latencies, p) ==
  IF Len(latencies) = 0 THEN 0
  ELSE latencies[((Len(latencies) * p) \div 100) + 1]

percentile(latencies, p) ==
  IF Len(latencies) = 0 THEN 0
  ELSE LET index == CeilDiv(Len(latencies) * p, 100) - 1
       IN  latencies[Max2(0, index) + 1]

\* Variant of the result: the timed samples taken for the total.
BenchmarkResultTimedTotal(b, t, sorted) ==
  [ timestamp          |-> t,
    duration           |-> Frac(t - b.startTime, MsPerSecond),
    totalRequests      |-> Len(sorted),
    successfulRequests |-> b.successCount,
    failedRequests     |-> b.failCount,
    requestsPerSecond  |-> Frac(Len(sorted) * MsPerSecond, t - b.startTime),
    avgLatency         |-> IF Len(sorted) > 0
                             THEN Frac(SumSeq(sorted), Len(sorted))
                             ELSE Frac(0, 1),
    minLatency         |-> IF Len(sorted) > 0 THEN sorted[1] ELSE 0,
    maxLatency         |-> IF Len(sorted) > 0 THEN sorted[Len(sorted)] ELSE 0,
    p50                |-> percentile(sorted, 50),
    p95                |-> percentile(sorted, 95),
    p99                |-> percentile(sorted, 99) ]

\* Variant of the result: the timestamp taken when the run starts.
BenchmarkResultStartStamp(b, t, sorted) ==
  [BenchmarkResultTimedTotal(b, t, sorted) EXCEPT
     !.timestamp = b.startTime,
     !.totalRequests = b.successCount + b.failCount,
     !.requestsPerSecond = Frac((b.successCount + b.failCount) * MsPerSecond,
                                t - b.startTime)]

\* The object literal passed to resolve(); sorted is latencies after sort().
BenchmarkResult(b, t, sorted) ==
  LET total == b.successCount + b.failCount
  IN  [ timestamp          |-> t,
        duration           |-> Frac(t - b.startTime, MsPerSecond),
        totalRequests      |-> total,
        successfulRequests |-> b.successCount,
        failedRequests     |-> b.failCount,
        requestsPerSecond  |-> Frac(total * MsPerSecond, t - b.startTime),
        avgLatency         |-> IF Len(sorted) > 0
                                 THEN Frac(SumSeq(sorted), Len(sorted))
                                 ELSE Frac(0, 1),
        minLatency         |-> IF Len(sorted) > 0 THEN sorted[1] ELSE 0,
        maxLatency         |-> IF Len(sorted) > 0 THEN sorted[Len(sorted)] ELSE 0,
        p50                |-> percentile(sorted, 50),
        p95                |-> percentile(sorted, 95),
        p99                |-> percentile(sorted, 99) ]

\* resolve(value): only the first settlement of a promise has an effect.
resolve(b, value) ==
  IF b.promise = "pending"
    THEN [b EXCEPT !.promise = "resolved", !.result = <<value>>]
    ELSE b

finalize(b, t) ==
  TheOne({ resolve([b EXCEPT !.latencies = sorted, !.finalizeCalls = @ + 1],
                   BenchmarkResult(b, t, sorted)) :
           sorted \in {SortAsc(b.latencies)} })

(***************************************************************************)
(* makeRequest, called at clock value t on behalf of request stream s.     *)
(* A request is a record; its state is "sent" (in flight), "ended",        *)
(* "errored", "destroyed" (req.destroy() was called before a response      *)
(* arrived: Node emits 'error', "socket hang up", on the request           *)
(* afterwards) or "closed" (req.destroy() was called after the response    *)
(* arrived: Node aborts the response and emits nothing on the request).    *)
(***************************************************************************)
\* Variant of the deadline test: the instant of the deadline still starts a request.
DeadlineReachedStrict(t, b) == t > b.endTime

\* if (Date.now() >= endTime)
DeadlineReached(t, b) == t >= b.endTime

NewRequest(t, s) == [state |-> "sent", stream |-> s, reqStart |-> t]

makeRequest(b, t, s) ==
  IF DeadlineReached(t, b)
    THEN IF b.activeConnections = 0 THEN finalize(b, t) ELSE b
    ELSE [b EXCEPT !.activeConnections = @ + 1,
                   !.reqs = Append(@, NewRequest(t, s))]

\* for (let i = 0; i < options.connections; i++) makeRequest();
RECURSIVE StartConnections(_, _, _, _)
StartConnections(b, t, i, connections) ==
  IF i < connections
    THEN StartConnections(makeRequest(b, t, i + 1), t, i + 1, connections)
    ELSE b

\* Variant of the deadline: the duration taken for milliseconds.
NewBenchUnscaled(t, duration) ==
  [ latencies         |-> <<>>,
    successCount      |-> 0,
    failCount         |-> 0,
    startTime         |-> t,
    endTime           |-> t + duration,
    activeConnections |-> 0,
    reqs              |-> <<>>,
    promise           |-> "pending",
    result            |-> <<>>,
    progress          |-> <<>>,
    finalizeCalls     |-> 0 ]

\* The closure variables of runHttpBenchmark before new URL(options.url).
NewBench(t, duration) ==
  [ latencies         |-> <<>>,
    successCount      |-> 0,
    failCount         |-> 0,
    startTime         |-> t,
    endTime           |-> t + duration * MsPerSecond,
    activeConnections |-> 0,
    reqs              |-> <<>>,
    promise           |-> "pending",
    result            |-> <<>>,
    progress          |-> <<>>,
    finalizeCalls     |-> 0 ]

IdleBench == [NewBench(0, 0) EXCEPT !.promise = "none"]

\* Variant of the executor: the URL is parsed after the start loop.
runHttpBenchmarkLateParse(o, t) ==
  LET b == StartConnections(NewBench(t, o.duration), t, 0, o.connections)
  IN  IF o.url = "malformed" THEN [b EXCEPT !.promise = "rejected"] ELSE b

\* The executor of the promise: a throw inside it rejects the promise.
runHttpBenchmark(o, t) ==
  LET b == NewBench(t, o.duration)
  IN  IF o.url = "malformed"
        THEN [b EXCEPT !.promise = "rejected"]
        ELSE StartConnections(b, t, 0, o.connections)

\* Variant of the progress value: without the cap Math.min(100, ...).
ProgressValueUncapped(elapsed, duration) ==
  Frac(elapsed * 100, duration * MsPerSecond)

\* Math.min(100, ((Date.now() - startTime) / (options.duration * 1000)) * 100)
ProgressValue(elapsed, duration) ==
  LET den == duration * MsPerSecond
  IN  IF den = 0
        THEN IF elapsed = 0 THEN Frac(0, 0) ELSE Frac(100, 1)
        ELSE IF elapsed * 100 >= 100 * den THEN Frac(100, 1)
        ELSE Frac(elapsed * 100, den)

\* Variant of the classification: status 400 taken for a success.
IsSuccessStatusInclusive(statusCode) == statusCode # 0 /\ statusCode >= 200 /\ statusCode <= 400

\* res.statusCode && res.statusCode >= 200 && res.statusCode < 400
IsSuccessStatus(statusCode) == statusCode # 0 /\ statusCode >= 200 /\ statusCode < 400

\* res.on('end', ...)
OnEnd(b, q, t, statusCode, duration) ==
  LET latency == t - b.reqs[q].reqStart
      ok == IsSuccessStatus(statusCode)
      b1 == [b EXCEPT !.latencies = Append(@, latency),
                      !.successCount = IF ok THEN @ + 1 ELSE @,
                      !.failCount = IF ok THEN @ ELSE @ + 1,
                      !.activeConnections = @ - 1,
                      !.progress = Append(@, ProgressValue(t - b.startTime, duration)),
                      !.reqs[q].state = "ended"]
  IN  TheOne({ makeRequest(c, t, b.reqs[q].stream) : c \in {b1} })

\* Variant of the 'error' handler: the stream is not continued.
OnErrorNoRestart(b, q, t) ==
  [b EXCEPT !.failCount = @ + 1,
            !.activeConnections = @ - 1,
            !.reqs[q].state = "errored"]

\* req.on('error', ...)
OnError(b, q, t) ==
  LET b1 == [b EXCEPT !.failCount = @ + 1,
                      !.activeConnections = @ - 1,
                      !.reqs[q].state = "errored"]
  IN  TheOne({ makeRequest(c, t, b.reqs[q].stream) : c \in {b1} })

\* req.on('timeout', ...); responded tells whether the response had arrived
\* when req.destroy() is called.
OnTimeout(b, q, t, responded) ==
  LET b1 == [b EXCEPT !.failCount = @ + 1,
                      !.activeConnections = @ - 1,
                      !.reqs[q].state = IF responded THEN "closed" ELSE "destroyed"]
  IN  TheOne({ makeRequest(c, t, b.reqs[q].stream) : c \in {b1} })

(***************************************************************************)
(* executeBenchmark after "await runHttpBenchmark(...)": it runs in the    *)
(* turn that settles the promise.  before/after are the closure at the     *)
(* start and at the end of the turn; save is the value of the setting      *)
(* apibench.saveHistory read at that moment.                               *)
(***************************************************************************)
\* Variant of the insertion: without the eviction of line 161.
UnshiftUncapped(history, r) == <<r>> \o history

Unshift(history, r) ==
  LET h == <<r>> \o history
  IN  IF Len(h) > HistoryLimit THEN SubSeq(h, 1, Len(h) - 1) ELSE h

Continue(r, before, after, save) ==
  IF before.promise = "pending" /\ after.promise = "resolved"
    THEN IF save
           THEN /\ benchmarkHistory' = Unshift(benchmarkHistory, r)
                /\ pc' = [pc EXCEPT ![r] = "awaitUpdate"]
                /\ panel' = [panel EXCEPT ![r] = "loading"]
           ELSE /\ panel' = [panel EXCEPT ![r] = "results"]
                /\ pc' = [pc EXCEPT ![r] = "done"]
                /\ UNCHANGED benchmarkHistory
  ELSE IF before.promise = "pending" /\ after.promise = "rejected"
    THEN /\ panel' = [panel EXCEPT ![r] = "error"]
         /\ pc' = [pc EXCEPT ![r] = "done"]
         /\ UNCHANGED benchmarkHistory
  ELSE /\ pc' = [pc EXCEPT ![r] = IF @ = "idle" THEN "awaitRun" ELSE @]
       /\ panel' = [panel EXCEPT ![r] = IF @ = "none" THEN "loading" ELSE @]
       /\ UNCHANGED benchmarkHistory

\* The history holds references to results: r > 0 stands for the result of
\* execution r, and -k for the k-th newest result stored by earlier sessions.
Stored(n) == [k \in 1..n |-> -k]

RECURSIVE CountRequests(_)
CountRequests(rs) ==
  IF rs = {} THEN 0
  ELSE LET r == CHOOSE x \in rs : TRUE
       IN  Len(bench[r].reqs) + CountRequests(rs \ {r})

TotalRequests == CountRequests(RunIds)

Init ==
  /\ now = 0
  /\ benchmarkHistory \in {Stored(n) : n \in StoredLengths}
  /\ options = [r \in RunIds |-> [url |-> "none", duration |-> 0, connections |-> 0]]
  /\ pc = [r \in RunIds |-> "idle"]
  /\ panel = [r \in RunIds |-> "none"]
  /\ bench = [r \in RunIds |-> IdleBench]
  /\ lastStatus = 0
  /\ budget = [commands |-> 1, requests |-> MaxRequests]

(***************************************************************************)
(* Actions.                                                                *)
(***************************************************************************)
\* The clock advances to the next observed instant.  Time is counted from the
\* first command: now = 0 is the instant at which it is given.
Tick ==
  /\ \E r \in RunIds : pc[r] # "idle"
  /\ \E t \in TimePoints :
       /\ t > now
       /\ \A u \in TimePoints : u > now => t <= u
       /\ now' = t
  /\ UNCHANGED <<benchmarkHistory, options, pc, panel, bench, lastStatus, budget>>

\* A command calls executeBenchmark(context, options): the panel shows the
\* loading page and runHttpBenchmark runs up to the end of its start loop.
ExecuteBenchmark(r) ==
  /\ pc[r] = "idle"
  /\ IF r = 1 THEN TRUE ELSE pc[r - 1] # "idle"
  /\ budget.commands > 0
  /\ budget' = [budget EXCEPT !.commands = @ - 1]
  /\ \E url \in {"valid", "malformed"}, duration \in Durations,
        connections \in Connections, save \in BOOLEAN :
       LET o == [url |-> url, duration |-> duration, connections |-> connections]
           b == runHttpBenchmark(o, now)
       IN  /\ now + duration * MsPerSecond <= Horizon
           /\ TotalRequests + connections <= budget.requests
           /\ options' = [options EXCEPT ![r] = o]
           /\ bench' = [bench EXCEPT ![r] = b]
           /\ Continue(r, NewBench(now, duration), b, save)
  /\ UNCHANGED <<now, lastStatus>>

\* A handler that calls makeRequest may run when that call can be modelled:
\* the deadline has passed or a request is left within the bound.
CanHandle(b) == DeadlineReached(now, b) \/ TotalRequests < budget.requests

\* The response arrives and is read to its end: res emits 'end'.
End(r, q) ==
  /\ bench[r].reqs[q].state = "sent"
  /\ CanHandle(bench[r])
  /\ \E statusCode \in Statuses, save \in BOOLEAN :
       LET b == OnEnd(bench[r], q, now, statusCode, options[r].duration)
       IN  /\ bench' = [bench EXCEPT ![r] = b]
           /\ lastStatus' = statusCode
           /\ Continue(r, bench[r], b, save)
  /\ UNCHANGED <<now, options, budget>>

\* The request emits 'error': a transport error of a request in flight, or
\* the "socket hang up" that follows req.destroy().
Error(r, q) ==
  /\ bench[r].reqs[q].state \in {"sent", "destroyed"}
  /\ CanHandle(bench[r])
  /\ \E save \in BOOLEAN :
       LET b == OnError(bench[r], q, now)
       IN  /\ bench' = [bench EXCEPT ![r] = b]
           /\ Continue(r, bench[r], b, save)
  /\ UNCHANGED <<now, options, lastStatus, budget>>

\* The socket has been idle for the 30 s of reqOptions.timeout.
Timeout(r, q) ==
  /\ bench[r].reqs[q].state = "sent"
  /\ now - bench[r].reqs[q].reqStart >= RequestTimeout
  /\ CanHandle(bench[r])
  /\ \E responded \in BOOLEAN, save \in BOOLEAN :
       LET b == OnTimeout(bench[r], q, now, responded)
       IN  /\ bench' = [bench EXCEPT ![r] = b]
           /\ Continue(r, bench[r], b, save)
  /\ UNCHANGED <<now, options, lastStatus, budget>>

\* context.globalState.update(...) completes: refresh the view, show the result.
HistorySaved(r) ==
  /\ pc[r] = "awaitUpdate"
  /\ pc' = [pc EXCEPT ![r] = "done"]
  /\ panel' = [panel EXCEPT ![r] = "results"]
  /\ UNCHANGED <<now, benchmarkHistory, options, bench, lastStatus, budget>>

Next ==
  \/ Tick
  \/ \E r \in RunIds : ExecuteBenchmark(r)
  \/ \E r \in RunIds : \E q \in 1..Len(bench[r].reqs) : End(r, q)
  \/ \E r \in RunIds : \E q \in 1..Len(bench[r].reqs) : Error(r, q)
  \/ \E r \in RunIds : \E q \in 1..Len(bench[r].reqs) : Timeout(r, q)
  \/ \E r \in RunIds : HistorySaved(r)

Spec == Init /\ [][Next]_vars

(***************************************************************************)
(* Fairness.  The clock runs; every exchange ends (by 'end', 'error' or    *)
(* 'timeout', and Node delivers the 'error' that follows req.destroy());   *)
(* the update of the global state completes.                               *)
(***************************************************************************)
Finish(r, q) ==
  /\ q \in 1..Len(bench[r].reqs)
  /\ End(r, q) \/ Error(r, q) \/ Timeout(r, q)

Fairness ==
  /\ WF_vars(Tick)
  /\ \A r \in RunIds : WF_vars(HistorySaved(r))
  /\ \A r \in RunIds : \A q \in 1..MaxRequests : WF_vars(Finish(r, q))

FairSpec == Spec /\ Fairness

(***************************************************************************)
(* Overlapping executions: two commands are given, the second possibly     *)
(* while the run of the first is still in progress.  OverlapRequests       *)
(* bounds the requests the two runs issue together.                        *)
(***************************************************************************)
OverlapRequests == 2

OverlapInit ==
  /\ now = 0
  /\ benchmarkHistory \in {Stored(n) : n \in StoredLengths}
  /\ options = [r \in RunIds |-> [url |-> "none", duration |-> 0, connections |-> 0]]
  /\ pc = [r \in RunIds |-> "idle"]
  /\ panel = [r \in RunIds |-> "none"]
  /\ bench = [r \in RunIds |-> IdleBench]
  /\ lastStatus = 0
  /\ budget = [commands |-> Cardinality(RunIds), requests |-> OverlapRequests]

OverlapSpec == OverlapInit /\ [][Next]_vars

(***************************************************************************)
(* The statistics of finalize as a function of the committed latencies.    *)
(* The specification FinalizeSpec starts in the turn before the last       *)
(* exchange of a run ends: one request stream, the deadline reached, the   *)
(* latencies committed so far drawn from CommitOrders, and the last        *)
(* request in flight.  Its actions are the handlers of the program: the    *)
(* last response ends ('end', which commits the last latency) or fails     *)
(* ('error'), and finalize computes the result.                            *)
(***************************************************************************)
SampleValues == {10, 20, 30, 40, 100}
SampleCounts == 1..5
TenSamples == [i \in 1..10 |-> i]

Rotate(s, k) == [i \in 1..Len(s) |-> s[((i + k - 1) % Len(s)) + 1]]
Reverse(s) == [i \in 1..Len(s) |-> s[Len(s) + 1 - i]]

\* The latencies of a run in the order in which the responses ended: every
\* sequence of 1 to 5 values of SampleValues, and the latencies 1..10 in
\* ascending and descending order and the rotations of both.
CommitOrders ==
  (UNION {[1..n -> SampleValues] : n \in SampleCounts})
    \cup {Rotate(TenSamples, k) : k \in 0..9}
    \cup {Rotate(Reverse(TenSamples), k) : k \in 0..9}

FinalizeOptions == [url |-> "valid", duration |-> 31, connections |-> 1]

\* The closure of a run of one stream at its deadline: the responses of
\* order, but the last, have ended one after the other; the next request
\* failed with a transport error; the request after it is in flight and its
\* response will have the last latency of order when it ends at the deadline.
BeforeLastEnd(order) ==
  LET n == Len(order) - 1
      prior == SubSeq(order, 1, n)
      b == NewBench(0, FinalizeOptions.duration)
      elapsed(i) == SumSeq(SubSeq(prior, 1, i))
  IN  [b EXCEPT
         !.latencies = prior,
         !.successCount = n,
         !.failCount = 1,
         !.activeConnections = 1,
         !.progress = [i \in 1..n |-> ProgressValue(elapsed(i), FinalizeOptions.duration)],
         !.reqs = [i \in 1..(n + 2) |->
                     IF i <= n
                       THEN [state |-> "ended", stream |-> 1, reqStart |-> elapsed(i - 1)]
                     ELSE IF i = n + 1
                       THEN [state |-> "errored", stream |-> 1, reqStart |-> elapsed(n)]
                     ELSE NewRequest(b.endTime - order[n + 1], 1)]]

FinalizeInit ==
  /\ \E order \in CommitOrders :
       /\ bench = [r \in RunIds |-> IF r = 1 THEN BeforeLastEnd(order) ELSE IdleBench]
       /\ budget = [commands |-> 0, requests |-> Len(order) + 1]
  /\ now = bench[1].endTime
  /\ benchmarkHistory = Stored(0)
  /\ options = [r \in RunIds |->
                  IF r = 1 THEN FinalizeOptions
                  ELSE [url |-> "none", duration |-> 0, connections |-> 0]]
  /\ pc = [r \in RunIds |-> IF r = 1 THEN "awaitRun" ELSE "idle"]
  /\ panel = [r \in RunIds |-> IF r = 1 THEN "loading" ELSE "none"]
  /\ lastStatus = 200

FinalizeNext ==
  \/ \E q \in 1..Len(bench[1].reqs) : End(1, q)
  \/ \E q \in 1..Len(bench[1].reqs) : Error(1, q)
  \/ HistorySaved(1)

FinalizeSpec == FinalizeInit /\ [][FinalizeNext]_vars

(***************************************************************************)
(* Vocabulary of the properties.                                           *)
(***************************************************************************)
Started(r) == pc[r] # "idle"
Valid(r) == options[r].url = "valid"
Requests(r) == 1..Len(bench[r].reqs)

\* Exchanges in flight: issued and not yet ended by 'end', 'error' or 'timeout'.
InFlight(r) == {q \in Requests(r) : bench[r].reqs[q].state = "sent"}
InFlightOf(r, s) == {q \in InFlight(r) : bench[r].reqs[q].stream = s}
\* Exchanges that have ended.
Finished(r) == Requests(r) \ InFlight(r)

Produced(r) == bench[r].promise = "resolved"
Result(r) == bench[r].result[1]

\* x <= y for fractions with positive denominators.
FracLeq(x, y) ==
  IF x.den = y.den THEN x.num <= y.num ELSE x.num * y.den <= y.num * x.den

Range(s) == {s[i] : i \in 1..Len(s)}

\* The nearest-rank percentile of the samples s: the least sample v such that
\* at least p per cent of the samples are <= v.
NearestRank(s, p) ==
  CHOOSE v \in Range(s) :
    /\ 100 * Cardinality({i \in 1..Len(s) : s[i] <= v}) >= p * Len(s)
    /\ \A w \in Range(s) :
         100 * Cardinality({i \in 1..Len(s) : s[i] <= w}) >= p * Len(s) => v <= w

PercentileOf(res, p) ==
  CASE p = 50 -> res.p50 [] p = 95 -> res.p95 [] p = 99 -> res.p99

\* The latencies committed when a step has run: those committed before it
\* and that of the response the step has read to its end, if any.
CommittedBy(r) ==
  LET ended == {q \in InFlight(r) : bench'[r].reqs[q].state = "ended"}
  IN  IF ended = {} THEN bench[r].latencies
      ELSE Append(bench[r].latencies,
                  now - bench[r].reqs[CHOOSE q \in ended : TRUE].reqStart)

AllStatisticsZero(res) ==
  /\ IsZero(res.requestsPerSecond)
  /\ IsZero(res.avgLatency)
  /\ res.minLatency = 0 /\ res.maxLatency = 0
  /\ res.p50 = 0 /\ res.p95 = 0 /\ res.p99 = 0

(***************************************************************************)
(* C1.  The run resolves only when all request streams have stopped: in    *)
(* every state in which the result has been produced, no request of the    *)
(* run is in flight.                                                       *)
(***************************************************************************)
C1_ResolvedOnlyWhenDrained ==
  \A r \in RunIds : Produced(r) => InFlight(r) = {}

(***************************************************************************)
(* C2.  At most options.connections requests are in flight, and each       *)
(* request stream has at most one outstanding request.                     *)
(***************************************************************************)
C2_AtMostNInFlight ==
  \A r \in RunIds :
    /\ Cardinality(InFlight(r)) <= options[r].connections
    /\ \A s \in 1..options[r].connections : Cardinality(InFlightOf(r, s)) <= 1

(***************************************************************************)
(* C3.  No sample is lost or duplicated: when the result is produced,      *)
(* totalRequests is the number of exchanges that have ended, each counted  *)
(* once; a timed-out exchange counts as one failure.                       *)
(***************************************************************************)
C3_EachExchangeCountedOnce ==
  [][\A r \in RunIds :
       (~Produced(r) /\ Produced(r)') =>
          (bench[r].result[1].totalRequests = Cardinality(Finished(r)))']_vars

(***************************************************************************)
(* C4.  A run with connections = 0 completes: it yields a result with      *)
(* totalRequests = 0 and all derived statistics 0.                         *)
(***************************************************************************)
C4_ZeroConnectionsCompletes ==
  \A r \in RunIds :
    (Started(r) /\ Valid(r) /\ options[r].connections = 0) =>
      /\ Produced(r)
      /\ Result(r).totalRequests = 0
      /\ AllStatisticsZero(Result(r))

(***************************************************************************)
(* C5.  A run with duration = 0 and connections >= 1 issues no request     *)
(* and yields totalRequests = 0 with every derived statistic 0: the        *)
(* divisor actualDuration of requestsPerSecond is never zero.              *)
(***************************************************************************)
C5_ZeroDurationAllZero ==
  \A r \in RunIds :
    (Started(r) /\ Valid(r) /\ options[r].duration = 0 /\ options[r].connections >= 1) =>
      /\ bench[r].reqs = <<>>
      /\ Produced(r)
      /\ Result(r).totalRequests = 0
      /\ Result(r).duration.num # 0
      /\ AllStatisticsZero(Result(r))

(***************************************************************************)
(* C6.  No request is started once the clock has reached the deadline:     *)
(* every request is issued strictly before endTime.  A request in flight   *)
(* when the deadline passes is left to finish: a step ends at most one     *)
(* exchange, and an exchange is cancelled only by its own 30 s timeout.    *)
(***************************************************************************)
C6_NoStartAfterDeadline ==
  /\ [](\A r \in RunIds : \A q \in Requests(r) :
          bench[r].reqs[q].reqStart < bench[r].endTime)
  /\ [][\A r \in RunIds :
          /\ \A q \in InFlight(r) :
               bench'[r].reqs[q].state \in {"destroyed", "closed"} =>
                 now - bench[r].reqs[q].reqStart >= RequestTimeout
          /\ \A q1, q2 \in InFlight(r) :
               (bench'[r].reqs[q1].state # "sent" /\ bench'[r].reqs[q2].state # "sent")
                 => q1 = q2]_vars

\* A response has ended at or after the deadline (its progress value is the
\* cap of 100) and the run has produced its result.
C6_Witness ==
  \E r \in RunIds :
    /\ Produced(r)
    /\ \E q \in Requests(r) : bench[r].reqs[q].state = "ended"
    /\ \E i \in 1..Len(bench[r].progress) : bench[r].progress[i] = Frac(100, 1)
    /\ Result(r).timestamp > bench[r].endTime

(***************************************************************************)
(* C7.  Classification of one exchange.  A response read to its end adds   *)
(* one latency entry and, with a status in [200, 400), one success,        *)
(* otherwise one failure.  A transport error or a timeout adds one to the  *)
(* failure count and no latency entry.  Hence the number of timed samples  *)
(* never exceeds successCount + failCount.                                 *)
(***************************************************************************)
C7_OutcomeClassification ==
  /\ [](\A r \in RunIds :
          Len(bench[r].latencies) <= bench[r].successCount + bench[r].failCount)
  /\ [][\A r \in RunIds : \A q \in Requests(r) :
          LET old == bench[r]
              new == bench'[r]
              from == old.reqs[q].state
              to == new.reqs[q].state
          IN  /\ (from = "sent" /\ to = "ended") =>
                   /\ Len(new.latencies) = Len(old.latencies) + 1
                   /\ SumSeq(new.latencies) =
                        SumSeq(old.latencies) + (now - old.reqs[q].reqStart)
                   /\ IF lastStatus' \in 200..399
                        THEN /\ new.successCount = old.successCount + 1
                             /\ new.failCount = old.failCount
                        ELSE /\ new.successCount = old.successCount
                             /\ new.failCount = old.failCount + 1
              /\ (from # to /\ to \in {"errored", "destroyed", "closed"}) =>
                   /\ SortAsc(new.latencies) = SortAsc(old.latencies)
                   /\ new.successCount = old.successCount
                   /\ new.failCount = old.failCount + 1]_vars

\* One success, one timed failure and one untimed failure have been recorded.
C7_Witness ==
  \E r \in RunIds :
    /\ bench[r].successCount = 1
    /\ bench[r].failCount = 2
    /\ Len(bench[r].latencies) = 2

(***************************************************************************)
(* C8.  The progress callback is invoked after every committed outcome,    *)
(* timed or not: once per exchange ended by 'end', 'error' or 'timeout'.   *)
(***************************************************************************)
C8_ProgressAfterEveryOutcome ==
  \A r \in RunIds :
    Len(bench[r].progress) = bench[r].successCount + bench[r].failCount

(***************************************************************************)
(* C9.  Transport errors, timeouts and failure statuses never abort the    *)
(* run: when every exchange ends, a run with a valid target and            *)
(* connections >= 1 resolves with a result, and the promise is never       *)
(* rejected once a request has been sent.                                  *)
(***************************************************************************)
C9_FailuresNeverAbort ==
  /\ \A r \in RunIds :
       (Started(r) /\ Valid(r) /\ options[r].connections >= 1) ~> Produced(r)
  /\ [](\A r \in RunIds : bench[r].reqs # <<>> => bench[r].promise # "rejected")

\* A result describing a run in which every request failed.
C9_Witness ==
  \E r \in RunIds :
    /\ Produced(r)
    /\ Result(r).totalRequests >= 2
    /\ Result(r).failedRequests = Result(r).totalRequests

(***************************************************************************)
(* C10.  A malformed URL is fatal: the promise is rejected before any      *)
(* request is issued, no result is produced, the panel shows the error,    *)
(* and the execution leaves the history as it was.                         *)
(***************************************************************************)
C10_MalformedUrlIsFatal ==
  /\ [](\A r \in RunIds :
          (Started(r) /\ options[r].url = "malformed") =>
             /\ bench[r].promise = "rejected"
             /\ bench[r].reqs = <<>>
             /\ bench[r].result = <<>>
             /\ panel[r] = "error"
             /\ \A i \in 1..Len(benchmarkHistory) : benchmarkHistory[i] # r)
  /\ [][\A r \in RunIds :
          (~Started(r) /\ options'[r].url = "malformed") =>
             benchmarkHistory' = benchmarkHistory]_vars

C10_Witness ==
  \E r \in RunIds :
    /\ pc[r] = "done"
    /\ options[r].url = "malformed"
    /\ bench[r].promise = "rejected"
    /\ Len(benchmarkHistory) = 49

(***************************************************************************)
(* C11.  actualDuration is never less than the configured duration: in     *)
(* every produced result, duration (seconds) >= options.duration, and the  *)
(* result is produced at or after the deadline endTime.                    *)
(***************************************************************************)
C11_ActualDurationAtLeastConfigured ==
  \A r \in RunIds :
    Produced(r) =>
      /\ Result(r).duration.den = MsPerSecond
      /\ Result(r).duration.num >= options[r].duration * Result(r).duration.den
      /\ bench[r].startTime + Result(r).duration.num >= bench[r].endTime

\* A run of 31 s whose last exchange ended 500 ms after the deadline:
\* actualDuration is 31.5 s.
C11_Witness ==
  \E r \in RunIds :
    /\ Produced(r)
    /\ options[r].duration = 31
    /\ Result(r).duration = Frac(31500, MsPerSecond)

(***************************************************************************)
(* C12.  In every produced result, totalRequests is exactly                *)
(* successfulRequests + failedRequests, the three fields read from the     *)
(* same result record.                                                     *)
(***************************************************************************)
C12_TotalIsSuccessPlusFailure ==
  \A r \in RunIds :
    Produced(r) =>
      Result(r).totalRequests =
        Result(r).successfulRequests + Result(r).failedRequests

\* A result with successes, a failure, and fewer timed samples than requests.
C12_Witness ==
  \E r \in RunIds :
    /\ Produced(r)
    /\ Result(r).successfulRequests >= 1
    /\ Result(r).failedRequests >= 1
    /\ Len(bench[r].latencies) < Result(r).totalRequests

(***************************************************************************)
(* C13 as stated.  The timestamp of the result is the start time of the    *)
(* run, the instant from which the deadline and actualDuration are         *)
(* measured.                                                               *)
(***************************************************************************)
C13_TimestampIsStartTime ==
  \A r \in RunIds : Produced(r) => Result(r).timestamp = bench[r].startTime

(***************************************************************************)
(* C13 amended.  The timestamp of the result is the instant at which the   *)
(* result is produced (new Date() inside finalize): the start time plus    *)
(* actualDuration, which is at or after the deadline.                      *)
(***************************************************************************)
C13_TimestampIsFinalizeTime ==
  \A r \in RunIds :
    Produced(r) =>
      /\ Result(r).timestamp = bench[r].startTime + Result(r).duration.num
      /\ Result(r).timestamp >= bench[r].endTime
      /\ Result(r).timestamp <= now

\* A result stamped 31 s after the start of its run.
C13_Witness ==
  \E r \in RunIds :
    /\ Produced(r)
    /\ bench[r].startTime = 0
    /\ Result(r).timestamp = 31000

(***************************************************************************)
(* C14.  Within one run the values passed to onProgress are numbers in     *)
(* [0, 100] and are non-decreasing in the order of the invocations.        *)
(***************************************************************************)
C14_ProgressMonotonicAndCapped ==
  \A r \in RunIds :
    LET progress == bench[r].progress
    IN  /\ \A i \in 1..Len(progress) :
              /\ progress[i].den > 0
              /\ FracLeq(Frac(0, 1), progress[i])
              /\ FracLeq(progress[i], Frac(100, 1))
        /\ \A i, j \in 1..Len(progress) :
              i < j => FracLeq(progress[i], progress[j])

\* onProgress was called with a value below 100 and later, for a response
\* that ended after the deadline, with the cap 100.
C14_Witness ==
  \E r \in RunIds :
    \E i, j \in 1..Len(bench[r].progress) :
      /\ i < j
      /\ bench[r].progress[i].num > 0
      /\ ~FracLeq(Frac(100, 1), bench[r].progress[i])
      /\ bench[r].progress[j] = Frac(100, 1)
      /\ now > bench[r].endTime

(***************************************************************************)
(* C15.  finalize is invoked exactly once per run, after all request       *)
(* streams have stopped: it is never invoked a second time, it is invoked  *)
(* only when no request is in flight, and a produced result goes with      *)
(* exactly one invocation.                                                 *)
(***************************************************************************)
C15_FinalizedExactlyOnce ==
  \A r \in RunIds :
    /\ bench[r].finalizeCalls <= 1
    /\ bench[r].finalizeCalls >= 1 => InFlight(r) = {}
    /\ Produced(r) => bench[r].finalizeCalls = 1

(***************************************************************************)
(* C18.  The counter activeConnections is the number of exchanges in       *)
(* flight (issued and not yet ended) and is never negative.                *)
(***************************************************************************)
C18_ActiveConnectionsIsInFlight ==
  \A r \in RunIds :
    /\ bench[r].activeConnections = Cardinality(InFlight(r))
    /\ bench[r].activeConnections >= 0

(***************************************************************************)
(* C16.  percentile(p) is the nearest-rank percentile of the timed         *)
(* latencies in ascending order: 0 without timed samples, otherwise the    *)
(* entry at index max(0, ceil(count * p) - 1), which lies within the       *)
(* array for p = 0.5, 0.95 and 0.99.  The samples 10, 20, 30, 40, 100      *)
(* give p50 = 30, p95 = 100 and p99 = 100.                                 *)
(***************************************************************************)
C16_PercentileNearestRank ==
  \A r \in RunIds :
    Produced(r) =>
      LET s == bench[r].latencies
          n == Len(s)
          res == Result(r)
      IN  /\ \A i, j \in 1..n : i < j => s[i] <= s[j]
          /\ n = 0 => (res.p50 = 0 /\ res.p95 = 0 /\ res.p99 = 0)
          /\ n > 0 =>
                \A p \in {50, 95, 99} :
                  LET index == Max2(0, CeilDiv(n * p, 100) - 1)
                  IN  /\ index \in 0..(n - 1)
                      /\ PercentileOf(res, p) = s[index + 1]
                      /\ PercentileOf(res, p) = NearestRank(s, p)
          /\ (n = 5 /\ Range(s) = {10, 20, 30, 40, 100}) =>
                (res.p50 = 30 /\ res.p95 = 100 /\ res.p99 = 100)

\* The result of the samples 10, 20, 30, 40, 100.
C16_Witness ==
  \E r \in RunIds :
    /\ Produced(r)
    /\ bench[r].latencies = <<10, 20, 30, 40, 100>>
    /\ Result(r).p50 = 30
    /\ Result(r).p99 = 100

(***************************************************************************)
(* C17.  In the step that produces the result, minLatency and maxLatency   *)
(* are the least and the greatest of the committed latencies and           *)
(* avgLatency is their sum divided by their number, in whatever order      *)
(* they were committed; all three are 0 when there is no timed sample.     *)
(* The latencies 1..10 give min 1, max 10 and avg 55 / 10 = 5.5.           *)
(***************************************************************************)
C17_MinMaxAvg ==
  [][\A r \in RunIds :
       (~Produced(r) /\ Produced(r)') =>
          LET T == CommittedBy(r)
              res == bench'[r].result[1]
          IN  /\ T = <<>> =>
                    (res.minLatency = 0 /\ res.maxLatency = 0 /\ IsZero(res.avgLatency))
              /\ T # <<>> =>
                    /\ res.minLatency \in Range(T)
                    /\ res.maxLatency \in Range(T)
                    /\ \A x \in Range(T) : res.minLatency <= x /\ x <= res.maxLatency
                    /\ res.avgLatency = Frac(SumSeq(T), Len(T))
              /\ (Len(T) = 10 /\ Range(T) = 1..10) =>
                    /\ res.minLatency = 1
                    /\ res.maxLatency = 10
                    /\ res.avgLatency = Frac(55, 10)
                    /\ 2 * res.avgLatency.num = 11 * res.avgLatency.den]_vars

\* The result of the latencies 1..10.
C17_Witness ==
  \E r \in RunIds :
    /\ Produced(r)
    /\ Len(bench[r].latencies) = 10
    /\ Result(r).minLatency = 1
    /\ Result(r).maxLatency = 10
    /\ Result(r).avgLatency = Frac(55, 10)

(***************************************************************************)
(* C19.  In every produced result with at least one timed sample,          *)
(* minLatency <= p50 <= p95 <= p99 <= maxLatency, and each of the five     *)
(* values is one of the timed latencies.                                   *)
(***************************************************************************)
C19_PercentilesOrdered ==
  \A r \in RunIds :
    (Produced(r) /\ Len(bench[r].latencies) > 0) =>
      LET res == Result(r)
      IN  /\ res.minLatency <= res.p50
          /\ res.p50 <= res.p95
          /\ res.p95 <= res.p99
          /\ res.p99 <= res.maxLatency
          /\ {res.minLatency, res.p50, res.p95, res.p99, res.maxLatency}
                \subseteq Range(bench[r].latencies)

\* A result whose minimum, median and 95th percentile differ.
C19_Witness ==
  \E r \in RunIds :
    /\ Produced(r)
    /\ Result(r).minLatency < Result(r).p50
    /\ Result(r).p50 < Result(r).p95
    /\ Result(r).p99 = Result(r).maxLatency

(***************************************************************************)
(* C20.  The history holds at most 50 results, newest-completed first,     *)
(* also when executions overlap.  A step changes the history only when a   *)
(* run resolves with saveHistory enabled; it then puts the result of that  *)
(* run at the front and evicts the last (oldest) entry only if the history *)
(* was full.  A run that resolves with saveHistory disabled, or whose      *)
(* promise is rejected, leaves the history as it was.                      *)
(***************************************************************************)
C20_HistoryCappedNewestFirst ==
  /\ [](/\ Len(benchmarkHistory) <= HistoryLimit
        /\ \A i \in 1..Len(benchmarkHistory) :
              benchmarkHistory[i] > 0 => Produced(benchmarkHistory[i])
        /\ \A i, j \in 1..Len(benchmarkHistory) :
              i < j =>
                LET newer == benchmarkHistory[i]
                    older == benchmarkHistory[j]
                IN  /\ newer # older
                    /\ newer < 0 => older < newer
                    /\ older > 0 =>
                          /\ newer > 0
                          /\ Result(newer).timestamp >= Result(older).timestamp)
  /\ [][LET saving == {r \in RunIds : pc[r] # "awaitUpdate" /\ pc'[r] = "awaitUpdate"}
             kept == IF Len(benchmarkHistory) = HistoryLimit
                       THEN SubSeq(benchmarkHistory, 1, HistoryLimit - 1)
                       ELSE benchmarkHistory
         IN  /\ \A r \in saving :
                   /\ ~Produced(r) /\ Produced(r)'
                   /\ benchmarkHistory' = <<r>> \o kept
             /\ saving = {} => benchmarkHistory' = benchmarkHistory]_vars

\* Two overlapping runs, both with requests: the one started first completed
\* last; both were saved, and the oldest stored result was evicted.
C20_Witness ==
  /\ Len(benchmarkHistory) = HistoryLimit
  /\ benchmarkHistory[1] = 1
  /\ benchmarkHistory[2] = 2
  /\ benchmarkHistory[HistoryLimit] = -(HistoryLimit - 2)
  /\ bench[1].reqs # <<>>
  /\ bench[2].reqs # <<>>
  /\ bench[2].startTime < Result(1).timestamp

====
